---- MODULE Spec2Model ----
(***************************************************************************)
(* UserStore (packages/rath-client/src/store/userStore.ts).                *)
(*                                                                         *)
(* Two state machines share this module:                                   *)
(*   Spec      one call of UserStore.loadNotebook on an archive;           *)
(*   SpecUser  getPersonalInfo / getOrganizations / commitLogout / destroy *)
(*             interleaved on one store.                                   *)
(*                                                                         *)
(* The manifest is taken to have the shape the cast on lines 341-344       *)
(* declares: manifest text is either not JSON, or JSON whose items are     *)
(* IParseMapItem records.                                                  *)
(***************************************************************************)
EXTENDS Integers, Sequences, FiniteSets, TLC

\* Longest manifest explored.
MaxItems == 2
\* Number of store method calls explored in SpecUser.
MaxCalls == 4

\* Archive entry filenames a manifest item may refer to.
Names == {"a.json", "m.json"}

\* IKRFComponents values the switch distinguishes, and one it does not.
Kinds == {"meta", "data", "collection", "causal", "dashboard", "other"}

\* IParseMapItem.type is only ever compared with IKRFComponents.meta.
Types == {"meta", "data"}

\* What the zip holds under a filename: no such entry, an entry whose
\* getData rejects, an entry whose text is not JSON, an entry with JSON text.
EntryStates == {"missing", "corrupt", "malformed", "ok"}

ParseMapItem == [name : Names, key : Kinds, type : Types]

Manifests == UNION {[1..n -> ParseMapItem] : n \in 0..MaxItems}

VARIABLES
    \* ---- inputs of loadNotebook
    openable,      \* zipReader.getEntries() resolves
    manifestEntry, \* state of the entry named parse_map.json
    items,         \* manifest.items once parsed
    archive,       \* filename -> EntryStates
    \* ---- loadNotebook
    pc,            \* position in loadNotebook
    idx,           \* manifest items the for-loop has taken so far
    res,           \* text extracted from the current item's entry
    calls,         \* sink calls begun, in order
    inflight,      \* items whose sink call has begun and not settled
    notes,         \* notify() calls: item index, 0 for the outer catch
    failed,        \* items whose try block threw
    rejected,      \* items whose sink call threw or rejected
    readerOpen,    \* a ZipReader was constructed and not closed
    escaped,       \* an error left loadNotebook
    \* ---- user session
    info,          \* UserStore.info
    persReqs,      \* /api/ce/personal requests in flight
    orgReqs,       \* /api/ce/organization/list requests in flight
    logoutReqs,    \* /api/logout requests in flight
    budget,        \* method calls still to be issued
    errNotes,      \* error notifications of the session methods
    okNotes,       \* success notifications of the session methods
    writeFails,    \* organization writes that found info null
    unhandled      \* errors that escaped a session method

loadVars == <<openable, manifestEntry, items, archive, pc, idx, res, calls,
              inflight, notes, failed, rejected, readerOpen, escaped>>
userVars == <<info, persReqs, orgReqs, logoutReqs, budget, errNotes, okNotes,
              writeFails, unhandled>>
vars == <<loadVars, userVars>>

----------------------------------------------------------------------------
\* Text and JSON

NoText == <<>>

\* entry.getData(new TextWriter()) of an entry that can be read: its text,
\* as a sequence of tokens.
EntryText(name) ==
    IF archive[name] = "ok" THEN <<"[", name, "]">> ELSE <<"[", name>>

SyntaxError == [tag |-> "SyntaxError", elems |-> <<>>]

\* JSON.parse on the token sequences above: a bracketed one-element array
\* parses to an array value, anything else throws SyntaxError.
JSONParse(text) ==
    IF Len(text) = 3 /\ text[1] = "[" /\ text[3] = "]"
    THEN [tag |-> "array", elems |-> <<text[2]>>]
    ELSE SyntaxError

----------------------------------------------------------------------------
\* loadNotebook: pure parts

\* result.find(which => which.filename === name)
HasEntry(name) == archive[name] # "missing"

\* Mutant of MetaFile: the companion is looked up by key instead of type.
MetaFileByKey(its) ==
    IF \E m \in 1..Len(its) : its[m].key = "meta"
    THEN CHOOSE m \in 1..Len(its) :
            its[m].key = "meta" /\ \A k \in 1..(m - 1) : its[k].key # "meta"
    ELSE 0

\* Mutant of MetaFile: the last item of type meta is taken, not the first.
MetaFileLast(its) ==
    IF \E m \in 1..Len(its) : its[m].type = "meta"
    THEN CHOOSE m \in 1..Len(its) :
            its[m].type = "meta" /\ \A k \in (m + 1)..Len(its) : its[k].type # "meta"
    ELSE 0

\* manifest.items.find(item => item.type === IKRFComponents.meta) as an
\* index into its, 0 for undefined.
MetaFile(its) ==
    IF \E m \in 1..Len(its) : its[m].type = "meta"
    THEN CHOOSE m \in 1..Len(its) :
            its[m].type = "meta" /\ \A k \in 1..(m - 1) : its[k].type # "meta"
    ELSE 0

Break == [kind |-> "break", sink |-> "none", args |-> <<>>]
Throw == [kind |-> "throw", sink |-> "none", args |-> <<>>]
Skip == [kind |-> "skip", sink |-> "none", args |-> <<>>]
Call(sink, args) == [kind |-> "call", sink |-> sink, args |-> args]

\* The sink a key other than data is routed to.
SinkOf(key) ==
    CASE key = "collection" -> "collectionStore.loadBackup"
      [] key = "causal" -> "causalStore.load"
      [] key = "dashboard" -> "dashboardStore.loadAll"
      [] OTHER -> "none"

\* How a sink call can end.  The sink stores are collaborators outside this
\* file: a sink accepts the payload or rejects it, the data-source load by a
\* rejected promise, the three un-awaited sinks by throwing.
SinkOutcomes(sink) == {"ok", "rejects"}

\* Mutant of Switch: the data arm parses its own text before it looks for
\* the companion.
SwitchParseFirst(its, key, text) ==
    IF key = "data"
    THEN IF JSONParse(text) = SyntaxError THEN Throw
         ELSE LET m == MetaFile(its) IN
              IF m = 0 THEN Break
              ELSE IF ~HasEntry(its[m].name) THEN Break
              ELSE IF archive[its[m].name] = "corrupt" THEN Throw
              ELSE LET rm == EntryText(its[m].name) IN
                   IF JSONParse(rm) = SyntaxError THEN Throw
                   ELSE Call("dataSourceStore.loadBackupDataStore",
                             <<JSONParse(text), JSONParse(rm)>>)
    ELSE IF SinkOf(key) # "none"
    THEN IF JSONParse(text) = SyntaxError THEN Throw
         ELSE Call(SinkOf(key), <<JSONParse(text)>>)
    ELSE Break

\* The switch of lines 354-384 up to the sink invocation, given the text
\* of the item's own entry.
Switch(its, key, text) ==
    IF key = "data"
    THEN LET m == MetaFile(its) IN
         IF m = 0 THEN Break
         ELSE IF ~HasEntry(its[m].name) THEN Break
         ELSE IF archive[its[m].name] = "corrupt" THEN Throw
         ELSE LET rm == EntryText(its[m].name) IN
              IF JSONParse(text) = SyntaxError \/ JSONParse(rm) = SyntaxError
              THEN Throw
              ELSE Call("dataSourceStore.loadBackupDataStore",
                        <<JSONParse(text), JSONParse(rm)>>)
    ELSE IF SinkOf(key) # "none"
    THEN IF JSONParse(text) = SyntaxError THEN Throw
         ELSE Call(SinkOf(key), <<JSONParse(text)>>)
    ELSE Break

\* One loop iteration of lines 346-384 for item i of its, up to the sink
\* invocation.
CallFor(its, i) ==
    IF ~HasEntry(its[i].name) \/ its[i].key = "meta" THEN Skip
    ELSE IF archive[its[i].name] = "corrupt" THEN Throw
    ELSE Switch(its, its[i].key, EntryText(its[i].name))

----------------------------------------------------------------------------
\* loadNotebook: steps

InitLoad ==
    /\ openable \in BOOLEAN
    /\ manifestEntry \in EntryStates
    /\ archive \in [Names -> EntryStates]
    /\ items \in Manifests
    \* no manifest is parsed unless the archive opens and parse_map.json is JSON
    /\ (~openable \/ manifestEntry # "ok") => items = <<>>
    \* an archive that cannot be opened shows no entries at all
    /\ ~openable => (manifestEntry = "missing" /\ archive = [n \in Names |-> "missing"])
    /\ pc = "start"
    /\ idx = 0
    /\ res = NoText
    /\ calls = <<>>
    /\ inflight = {}
    /\ notes = <<>>
    /\ failed = {}
    /\ rejected = {}
    /\ readerOpen = FALSE
    /\ escaped = FALSE

InitUser ==
    /\ info = <<>>
    /\ persReqs = 0
    /\ orgReqs = 0
    /\ logoutReqs = 0
    /\ budget = MaxCalls
    /\ errNotes = 0
    /\ okNotes = 0
    /\ writeFails = 0
    /\ unhandled = 0

\* Mutant of TopCatch: the outer catch swallows the error without notify.
TopCatchSilent ==
    /\ notes' = notes
    /\ pc' = "done"
    /\ escaped' = escaped

\* Mutant of TopCatch: the outer catch rethrows to the caller.
TopCatchRethrow ==
    /\ notes' = Append(notes, 0)
    /\ pc' = "done"
    /\ escaped' = TRUE

\* The outer catch, lines 394-400.
TopCatch ==
    /\ notes' = Append(notes, 0)
    /\ pc' = "done"
    /\ escaped' = escaped

\* Mutant of ItemCatch: the catch leaves the loop instead of continuing.
ItemCatchAbort(i) ==
    /\ notes' = Append(notes, i)
    /\ pc' = "done"
    /\ escaped' = escaped

\* Mutant of ItemCatch: the catch continues without notify.
ItemCatchSilent(i) ==
    /\ notes' = notes
    /\ pc' = "loop"
    /\ escaped' = escaped

\* The per-item catch, lines 385-392, for the item the loop is at.
ItemCatch(i) ==
    /\ notes' = Append(notes, i)
    /\ pc' = "loop"
    /\ escaped' = escaped

\* Lines 332-333: construct the reader and list the entries.
Open ==
    /\ pc = "start"
    /\ readerOpen' = TRUE
    /\ IF openable
       THEN pc' = "opened" /\ UNCHANGED <<notes, escaped>>
       ELSE TopCatch
    /\ UNCHANGED <<openable, manifestEntry, items, archive, idx, res, calls,
                   inflight, failed, rejected>>
    /\ UNCHANGED userVars

\* Lines 334-345: find parse_map.json, read and parse it.
ReadManifest ==
    /\ pc = "opened"
    /\ IF manifestEntry = "ok"
       THEN pc' = "loop" /\ UNCHANGED <<notes, escaped>>
       ELSE TopCatch
    /\ UNCHANGED <<openable, manifestEntry, items, archive, idx, res, calls,
                   inflight, failed, rejected, readerOpen>>
    /\ UNCHANGED userVars

\* Lines 346-353: take the next item, find its entry, extract its text.
NextItem ==
    /\ pc = "loop"
    /\ idx < Len(items)
    /\ LET i == idx + 1 IN
       /\ idx' = i
       /\ IF ~HasEntry(items[i].name) \/ items[i].key = "meta"
          THEN /\ pc' = "loop"
               /\ UNCHANGED <<res, notes, failed, escaped>>
          ELSE IF archive[items[i].name] = "corrupt"
          THEN /\ failed' = failed \cup {i}
               /\ ItemCatch(i)
               /\ UNCHANGED res
          ELSE /\ res' = EntryText(items[i].name)
               /\ pc' = "route"
               /\ UNCHANGED <<notes, failed, escaped>>
    /\ UNCHANGED <<openable, manifestEntry, items, archive, calls, inflight,
                   rejected, readerOpen>>
    /\ UNCHANGED userVars

\* Mutant of AfterDataCall: the data-source load is not awaited.
AfterDataCallNoAwait == "loop"

\* Where loadNotebook goes once dataSourceStore.loadBackupDataStore has been
\* called: line 366 awaits it.
AfterDataCall == "await"

\* Lines 354-384: route the extracted text by key.  A sink other than the
\* data source is called without await: it returns or throws in this step.
Route ==
    /\ pc = "route"
    /\ LET i == idx
           r == Switch(items, items[i].key, res)
       IN
       /\ res' = NoText
       /\ CASE r.kind = "break" ->
                 /\ pc' = "loop"
                 /\ UNCHANGED <<calls, inflight, notes, failed, rejected, escaped>>
            [] r.kind = "throw" ->
                 /\ failed' = failed \cup {i}
                 /\ ItemCatch(i)
                 /\ UNCHANGED <<calls, inflight, rejected>>
            [] r.kind = "call" /\ items[i].key = "data" ->
                 /\ calls' = Append(calls, [item |-> i, sink |-> r.sink, args |-> r.args])
                 /\ inflight' = inflight \cup {i}
                 /\ pc' = AfterDataCall
                 /\ UNCHANGED <<notes, failed, rejected, escaped>>
            [] r.kind = "call" /\ items[i].key # "data" ->
                 /\ calls' = Append(calls, [item |-> i, sink |-> r.sink, args |-> r.args])
                 /\ UNCHANGED inflight
                 /\ \E o \in SinkOutcomes(r.sink) :
                       IF o = "ok"
                       THEN /\ pc' = "loop"
                            /\ UNCHANGED <<notes, failed, rejected, escaped>>
                       ELSE /\ failed' = failed \cup {i}
                            /\ rejected' = rejected \cup {i}
                            /\ ItemCatch(i)
    /\ UNCHANGED <<openable, manifestEntry, items, archive, idx, readerOpen>>
    /\ UNCHANGED userVars

\* Line 366: the awaited data-source load resolves or rejects.
SinkSettle ==
    /\ pc = "await"
    /\ inflight' = inflight \ {idx}
    /\ \E o \in SinkOutcomes("dataSourceStore.loadBackupDataStore") :
          IF o = "ok"
          THEN /\ pc' = "loop"
               /\ UNCHANGED <<notes, failed, rejected, escaped>>
          ELSE /\ failed' = failed \cup {idx}
               /\ rejected' = rejected \cup {idx}
               /\ ItemCatch(idx)
    /\ UNCHANGED <<openable, manifestEntry, items, archive, idx, res, calls,
                   readerOpen>>
    /\ UNCHANGED userVars

\* Line 393-401: the loop is exhausted and the call returns.
Return ==
    /\ pc = "loop"
    /\ idx = Len(items)
    /\ pc' = "done"
    /\ UNCHANGED <<openable, manifestEntry, items, archive, idx, res, calls,
                   inflight, notes, failed, rejected, readerOpen, escaped>>
    /\ UNCHANGED userVars

Init == InitLoad /\ InitUser

Next == Open \/ ReadManifest \/ NextItem \/ Route \/ SinkSettle \/ Return

Spec == Init /\ [][Next]_vars

----------------------------------------------------------------------------
\* User session: getPersonalInfo, getOrganizations, commitLogout, destroy

\* IUserInfo.userName values the server may return.
Users == {"ann", "bob"}

\* Organization lists the server may return.
OrgLists == {"orgsA", "orgsB"}

\* get loggedIn(), lines 60-62.  info is <<>> for null, <<record>> otherwise.
loggedIn == info # <<>>

\* Lines 188-190: getPersonalInfo sends its request.
GetPersonalInfo ==
    /\ budget > 0
    /\ budget' = budget - 1
    /\ persReqs' = persReqs + 1
    /\ UNCHANGED <<info, orgReqs, logoutReqs, errNotes, okNotes, writeFails, unhandled>>
    /\ UNCHANGED loadVars

\* Lines 190-209: the personal request settles.  A non-null result sets info
\* and starts getOrganizations, which sends its request (lines 213-215) and
\* is not awaited.
PersonalSettle ==
    /\ persReqs > 0
    /\ persReqs' = persReqs - 1
    /\ \/ \E u \in Users :
             /\ info' = <<[userName |-> u, organizations |-> "undefined"]>>
             /\ orgReqs' = orgReqs + 1
             /\ UNCHANGED errNotes
       \/ UNCHANGED <<info, orgReqs, errNotes>>
       \/ /\ errNotes' = errNotes + 1
          /\ UNCHANGED <<info, orgReqs>>
    /\ UNCHANGED <<logoutReqs, budget, okNotes, writeFails, unhandled>>
    /\ UNCHANGED loadVars

\* Mutant of OrgWrite: the write rebuilds info when it is null.
OrgWriteRebuild(o) ==
    IF info = <<>>
    THEN /\ info' = <<[userName |-> "ann", organizations |-> o]>>
         /\ UNCHANGED <<writeFails, errNotes, unhandled>>
    ELSE /\ info' = <<[info[1] EXCEPT !.organizations = o]>>
         /\ UNCHANGED <<writeFails, errNotes, unhandled>>

\* Lines 216-225: the write of the organization list, inside try.  With info
\* null, this.info!.organizations throws TypeError, which the catch reports.
OrgWrite(o) ==
    IF info = <<>>
    THEN /\ writeFails' = writeFails + 1
         /\ errNotes' = errNotes + 1
         /\ UNCHANGED <<info, unhandled>>
    ELSE /\ info' = <<[info[1] EXCEPT !.organizations = o]>>
         /\ UNCHANGED <<writeFails, errNotes, unhandled>>

\* Lines 215-225: the organization-list request settles.
OrgSettle ==
    /\ orgReqs > 0
    /\ orgReqs' = orgReqs - 1
    /\ \/ \E o \in OrgLists : OrgWrite(o)
       \/ /\ errNotes' = errNotes + 1
          /\ UNCHANGED <<info, writeFails, unhandled>>
    /\ UNCHANGED <<persReqs, logoutReqs, budget, okNotes>>
    /\ UNCHANGED loadVars

\* Lines 148-152: commitLogout sends its request.
CommitLogout ==
    /\ budget > 0
    /\ budget' = budget - 1
    /\ logoutReqs' = logoutReqs + 1
    /\ UNCHANGED <<info, persReqs, orgReqs, errNotes, okNotes, writeFails, unhandled>>
    /\ UNCHANGED loadVars

\* Lines 153-169: the logout request settles.
LogoutSettle ==
    /\ logoutReqs > 0
    /\ logoutReqs' = logoutReqs - 1
    /\ \/ /\ info' = <<>>
          /\ okNotes' = okNotes + 1
          /\ UNCHANGED errNotes
       \/ /\ errNotes' = errNotes + 1
          /\ UNCHANGED <<info, okNotes>>
    /\ UNCHANGED <<persReqs, orgReqs, budget, writeFails, unhandled>>
    /\ UNCHANGED loadVars

\* Lines 87-89.
destroy ==
    /\ budget > 0
    /\ budget' = budget - 1
    /\ info' = <<>>
    /\ UNCHANGED <<persReqs, orgReqs, logoutReqs, errNotes, okNotes, writeFails, unhandled>>
    /\ UNCHANGED loadVars

\* No loadNotebook call is under way while the session methods run.
IdleLoad ==
    /\ InitLoad
    /\ ~openable

InitSession == IdleLoad /\ InitUser

NextUser ==
    \/ GetPersonalInfo \/ PersonalSettle \/ OrgSettle
    \/ CommitLogout \/ LogoutSettle \/ destroy

SpecUser == InitSession /\ [][NextUser]_vars

----------------------------------------------------------------------------
\* Properties of loadNotebook

Done == pc = "done"

\* The archive opened and parse_map.json parsed: the loop was entered.
ManifestRead == openable /\ manifestEntry = "ok"

\* The sink calls begun for item i, in order.
CallsOf(i) == SelectSeq(calls, LAMBDA c : c.item = i)

\* The number of notifications for item i (0: the outer catch).
NotesOf(i) == Len(SelectSeq(notes, LAMBDA n : n = i))

\* What the loop iteration for item j of manifest its yields on its own:
\* the sink call it begins, if any.
OwnCalls(its, j) ==
    IF CallFor(its, j).kind = "call"
    THEN <<[sink |-> CallFor(its, j).sink, args |-> CallFor(its, j).args]>>
    ELSE <<>>

\* CallsOf(i) without the item index.
SinkCallsOf(i) ==
    [k \in 1..Len(CallsOf(i)) |->
        [sink |-> CallsOf(i)[k].sink, args |-> CallsOf(i)[k].args]]

\* m is the first manifest item, in manifest order, whose type is meta.
IsFirstMeta(its, m) ==
    /\ m \in 1..Len(its)
    /\ its[m].type = "meta"
    /\ \A k \in 1..(m - 1) : its[k].type # "meta"

\* C1: per-item isolation.  An item whose extraction, JSON parsing or sink
\* call failed has exactly one notification, and once the call has returned
\* every later item was visited, began exactly the sink call its own
\* iteration yields, and was notified only if it failed itself.
C1_PerItemIsolation ==
    /\ \A i \in failed : NotesOf(i) = 1
    /\ Done =>
         \A i \in failed : \A j \in (i + 1)..Len(items) :
            /\ idx >= j
            /\ SinkCallsOf(j) = OwnCalls(items, j)
            /\ NotesOf(j) = (IF j \in failed THEN 1 ELSE 0)

\* C1 witness: the first item failed, the second still began its sink call.
C1_Witness ==
    /\ Done
    /\ 1 \in failed
    /\ NotesOf(1) = 1
    /\ Len(items) = 2
    /\ Len(CallsOf(2)) = 1

\* C2: a top-level failure (archive cannot be opened, no parse_map.json,
\* manifest text unreadable or not JSON) ends the call with zero sink calls
\* and exactly one notification, from the outer catch.
C2_TopLevelAbort ==
    (Done /\ ~ManifestRead) => (calls = <<>> /\ notes = <<0>>)

\* C2 witness: an archive with readable entries and no parse_map.json.
C2_Witness ==
    /\ Done
    /\ openable
    /\ manifestEntry = "missing"
    /\ \E n \in Names : archive[n] = "ok"
    /\ notes = <<0>>

\* C3: sink calls are begun in manifest order, at most one per item, and a
\* call is begun only when every earlier call has settled: the only call
\* that can be unsettled is the latest one.
C3_SequentialSinkCalls ==
    /\ \A k \in 1..(Len(calls) - 1) : calls[k].item < calls[k + 1].item
    /\ \A i \in inflight : Len(calls) > 0 /\ calls[Len(calls)].item = i
    /\ Cardinality(inflight) <= 1

\* C3 witness: a data-source load has settled and a second call was begun.
C3_Witness ==
    /\ Len(calls) = 2
    /\ calls[1].sink = "dataSourceStore.loadBackupDataStore"
    /\ inflight = {}
    /\ 1 \notin rejected

\* Every manifest item names an entry with JSON text, and a manifest that
\* has a data item has an item of type meta.
WellFormed ==
    /\ ManifestRead
    /\ \A i \in 1..Len(items) : archive[items[i].name] = "ok"
    /\ (\E i \in 1..Len(items) : items[i].key = "data")
          => \E m \in 1..Len(items) : items[m].type = "meta"

\* C4: routing on a well-formed archive.  A data item calls the data-source
\* sink once with the JSON of its own entry and the JSON of the entry of
\* the first item whose type is meta; collection, causal and dashboard items
\* call their own sink once with the JSON of their entry; meta and other
\* keys call nothing.
C4_Routing ==
    (Done /\ WellFormed) =>
        \A i \in 1..Len(items) :
            LET own == JSONParse(<<"[", items[i].name, "]">>) IN
            CASE items[i].key = "data" ->
                    \E m \in 1..Len(items) :
                        /\ IsFirstMeta(items, m)
                        /\ SinkCallsOf(i) =
                             <<[sink |-> "dataSourceStore.loadBackupDataStore",
                                args |-> <<own, JSONParse(<<"[", items[m].name, "]">>)>>]>>
              [] items[i].key = "collection" ->
                    SinkCallsOf(i) = <<[sink |-> "collectionStore.loadBackup", args |-> <<own>>]>>
              [] items[i].key = "causal" ->
                    SinkCallsOf(i) = <<[sink |-> "causalStore.load", args |-> <<own>>]>>
              [] items[i].key = "dashboard" ->
                    SinkCallsOf(i) = <<[sink |-> "dashboardStore.loadAll", args |-> <<own>>]>>
              [] OTHER -> SinkCallsOf(i) = <<>>

\* C4 witness: a data item paired with a meta item held in another entry.
C4_Witness ==
    /\ Done
    /\ WellFormed
    /\ Len(items) = 2
    /\ items[1].key = "data" /\ items[1].type = "data"
    /\ items[2].key = "meta" /\ items[2].type = "meta"
    /\ items[1].name # items[2].name
    /\ Len(calls) = 1
    /\ calls[1].args[1] # calls[1].args[2]

\* Steps loadNotebook can still take, at most.
Variant ==
    IF Done THEN 0
    ELSE 1 + 3 * (Len(items) - idx)
           + (CASE pc = "start" -> 2
                [] pc = "opened" -> 1
                [] pc = "loop" -> 0
                [] pc = "route" -> 2
                [] pc = "await" -> 1)

\* C5: loadNotebook never lets an error reach its caller and always
\* finishes: no error escapes, a step is possible until the call has
\* returned, every step lowers the number of steps left, and once the
\* manifest was read the call returns only after every item was visited.
C5_AlwaysCompletes ==
    /\ [](~escaped)
    /\ [](~Done => ENABLED Next)
    /\ [][Variant' < Variant]_vars
    /\ []((Done /\ ManifestRead) => idx = Len(items))

\* C5 witness: the call returned after visiting both items although one
\* failed and a sink rejected.
C5_Witness ==
    /\ Done
    /\ ManifestRead
    /\ idx = 2
    /\ rejected # {}
    /\ Cardinality(failed) = 2
    /\ ~escaped

\* Item i is a data item that has no companion to load with: no manifest
\* item has type meta, or the first one names an entry the archive lacks.
NoCompanion ==
    \/ \A m \in 1..Len(items) : items[m].type # "meta"
    \/ \E m \in 1..Len(items) : IsFirstMeta(items, m) /\ ~HasEntry(items[m].name)

\* C6 as stated: a data item whose entry exists and which has no companion
\* makes no data-source call, gets no notification, and the loop goes on to
\* the end.
C6_SilentSkipAsStated ==
    Done =>
        \A i \in 1..Len(items) :
            (items[i].key = "data" /\ HasEntry(items[i].name) /\ NoCompanion)
                => /\ CallsOf(i) = <<>>
                   /\ NotesOf(i) = 0
                   /\ idx = Len(items)

\* C6 amended: the same, for a data item whose own entry was extracted
\* without error (the extraction of line 353 precedes the companion lookup
\* and its failure is reported).
C6_SilentSkip ==
    Done =>
        \A i \in 1..Len(items) :
            (/\ items[i].key = "data"
             /\ HasEntry(items[i].name)
             /\ archive[items[i].name] # "corrupt"
             /\ NoCompanion)
                => /\ CallsOf(i) = <<>>
                   /\ NotesOf(i) = 0
                   /\ idx = Len(items)

\* C6 witness: a data item with unparsable text and no item of type meta was
\* skipped without notification, and the item after it began its sink call.
C6_Witness ==
    /\ Done
    /\ Len(items) = 2
    /\ items[1].key = "data"
    /\ archive[items[1].name] = "malformed"
    /\ \A m \in 1..Len(items) : items[m].type # "meta"
    /\ notes = <<>>
    /\ Len(CallsOf(2)) = 1

\* Manifest its without its k-th item.
RemoveAt(its, k) ==
    [n \in 1..(Len(its) - 1) |-> IF n < k THEN its[n] ELSE its[n + 1]]

\* Every item other than k began the sink calls it yields in the manifest
\* that lacks item k.
SameWithout(k) ==
    \A j \in (1..Len(items)) \ {k} :
        /\ idx >= j
        /\ SinkCallsOf(j) = OwnCalls(RemoveAt(items, k), IF j < k THEN j ELSE j - 1)

\* C7 as stated: an item naming no archive entry makes no sink call, and
\* every other item makes the sink calls it would make were that item not
\* in the manifest.
C7_MissingEntryAsStated ==
    Done =>
        \A k \in 1..Len(items) :
            ~HasEntry(items[k].name) => (CallsOf(k) = <<>> /\ SameWithout(k))

\* C7 amended: an item naming no archive entry makes no sink call; unless it
\* is the first item of type meta, every other item makes the sink calls it
\* would make were that item not in the manifest.
C7_MissingEntry ==
    Done =>
        \A k \in 1..Len(items) :
            ~HasEntry(items[k].name) =>
                /\ CallsOf(k) = <<>>
                /\ ~IsFirstMeta(items, k) => SameWithout(k)

\* C7 witness: an item with a missing entry, not the companion, was skipped
\* and the other item began its sink call.
C7_Witness ==
    /\ Done
    /\ \E k \in 1..Len(items) :
          /\ ~HasEntry(items[k].name)
          /\ ~IsFirstMeta(items, k)
          /\ \E j \in (1..Len(items)) \ {k} : Len(CallsOf(j)) = 1

\* C8 as stated: after an import that read its manifest, the notifications
\* number the items the loop processes (key other than meta) whose entry is
\* missing, whose extraction or JSON parsing throws, or whose sink rejects.
C8_OneNotePerFailureAsStated ==
    (Done /\ ManifestRead) =>
        Len(notes) = Cardinality({i \in 1..Len(items) :
                                    \/ items[i].key # "meta" /\ ~HasEntry(items[i].name)
                                    \/ CallFor(items, i).kind = "throw"
                                    \/ i \in rejected})

\* C8 amended: each item whose extraction, JSON parsing or sink call threw
\* has exactly one notification and no other item has any; an item whose
\* entry is missing has none.  After an import that read its manifest the
\* notifications number the items that threw.
C8_OneNotePerFailure ==
    /\ \A i \in 1..Len(items) : NotesOf(i) = (IF i \in failed THEN 1 ELSE 0)
    /\ \A i \in 1..Len(items) : ~HasEntry(items[i].name) => NotesOf(i) = 0
    /\ (Done /\ ManifestRead) => Len(notes) = Cardinality(failed)

\* C8 witness: one item was skipped for its missing entry, the other threw,
\* and there is one notification.
C8_Witness ==
    /\ Done
    /\ Len(items) = 2
    /\ ~HasEntry(items[1].name) /\ items[1].key # "meta"
    /\ failed = {2}
    /\ notes = <<2>>

\* C9: when loadNotebook has returned, the archive reader it constructed
\* has been released.
C9_ReaderReleased == Done => ~readerOpen

----------------------------------------------------------------------------
\* Properties of the user session

\* C10: when an organization-list response arrives while info is null, info
\* stays null (loggedIn stays false), exactly one error notification is
\* emitted and no error escapes.
C10_LateOrganizations ==
    [][(orgReqs' < orgReqs /\ info = <<>>)
          => (info' = <<>> /\ errNotes' = errNotes + 1 /\ unhandled' = unhandled)]_vars

\* C10 witness: a logout landed while the organization request was in
\* flight, the late write failed and was notified, and the store is logged
\* out.
C10_Witness ==
    /\ writeFails = 1
    /\ okNotes = 1
    /\ errNotes = 1
    /\ ~loggedIn
    /\ unhandled = 0

====
